---- MODULE Spec2Model ----
(***************************************************************************)
(* Model of gacha-system/src/gacha_core.rs: the GachaSystem draw engine.   *)
(*                                                                         *)
(* Weights are f64 in the source.  They are modelled as non-negative       *)
(* integers (multiples of one weight unit); the ranges built by            *)
(* rarity_range then have integer bounds, and a sampled real f in          *)
(* [k, k+1) lies in exactly the same ranges as the integer k, so the       *)
(* random value of a draw is modelled by an integer in 0 .. gen_limit-1.   *)
(* A panic of pull (gen_range on an empty range, the expect of line 89,    *)
(* the unwrap of line 95) ends the call without a return value; the        *)
(* fields keep what the earlier draws of the batch wrote.                  *)
(***************************************************************************)
EXTENDS Integers, Sequences, FiniteSets, TLC

\* ------------------------------------------------------------- bounds
\* a weight of the table is 0 (the rarity is disabled) or MaxWeight units
MaxWeight == 1
\* pity and hard_pity range over 0..MaxThreshold
MaxThreshold == 2
\* chances at construction, with every pool filled
MaxChances == 3
\* chances at construction, with a pool missing or empty
MaxPoolChances == 2
\* tables given to the range construction alone: at most MaxLen entries, in any
\* order and with repeated rarities, every weight in 0..MaxRate
MaxLen == 3
MaxRate == 2
\* chances at construction, where two pulls in a row are compared with one
MaxBatchChances == 2

\* ------------------------------------------------------------- constants
\* items of one pool: gacha_items(Rarity::SSR, 2)
PoolSize == 2
\* the combined pity scenario: pity 10, hard_pity 80, chances 100
ScenPity == 10
ScenHardPity == 80
ScenChances == 100

\* ------------------------------------------------------------- types
\* enum Rarity
Rarity == {"SSR", "SR", "R", "N"}

\* GachaSystem fields, then the observation of the last pull:
\*   ret   - what the last pull gave its caller
\*   call  - the argument and the fields at the entry of the last pull
\*   trace - one record per draw the last pull started (line 94 prints
\*           the rolled number and the rarity of each draw)
\*   probe - the last application of the range construction and lookup to the
\*           table, outside a pull: the ranges built, the value looked up, the
\*           index of the entry found
\*   prev  - call, ret and trace of the pull before the last one, where the
\*           caller keeps them
VARIABLES chances, pity, hard_pity, pity_accu, hard_pity_accu, data, rarities,
          ret, trace, call, probe, prev

vars == <<chances, pity, hard_pity, pity_accu, hard_pity_accu, data, rarities,
          ret, trace, call, probe, prev>>

Min(a, b) == IF a <= b THEN a ELSE b

\* tests::gacha_items: num items of one rarity, named by their index
gacha_items(rarity, num) == [i \in 1..num |-> [name |-> i - 1, rarity |-> rarity]]

\* the order of the table GachaSystem::new builds
DefaultOrder == <<"SSR", "SR", "R", "N">>

\* tables in the order of new(), every weight 0 or MaxWeight
Tables ==
    { [i \in 1..4 |-> <<DefaultOrder[i], w[i]>>] : w \in [1..4 -> {0, MaxWeight}] }

\* the tables of Tables with any of their entries left out, the empty table included
SparseTables ==
    { SelectSeq(t, LAMBDA e : e[1] \in keep) : t \in Tables, keep \in SUBSET Rarity }

\* the table of the combined pity scenario: SSR and SR disabled
ScenTable == <<<<"SSR", 0>>, <<"SR", 0>>, <<"R", MaxWeight>>, <<"N", MaxWeight>>>>

\* tests::RARITIES in units of 0.05: SSR 0.05, N 0.35, R 0.4, SR 0.2
TestTable == <<<<"SSR", 1>>, <<"N", 7>>, <<"R", 8>>, <<"SR", 4>>>>

\* every table of at most MaxLen entries with weights in 0..MaxRate, and tests::RARITIES
RangeTables ==
    UNION { [1..n -> Rarity \X (0..MaxRate)] : n \in 0..MaxLen } \cup {TestTable}

\* tests::DATA: every rarity backed by items
FullData == [r \in Rarity |-> gacha_items(r, PoolSize)]

\* item pools with one rarity missing (no key) or empty (a key with no items)
BadPools ==
    { [r \in Rarity \ {bad} |-> FullData[r]] : bad \in Rarity }
    \cup { [FullData EXCEPT ![bad] = <<>>] : bad \in Rarity }

\* ------------------------------------------------------------- helpers
RECURSIVE SumRates(_)
\* available_rarities.iter().map(|(_, ra)| ra).sum()
SumRates(rs) == IF rs = <<>> THEN 0 ELSE rs[1][2] + SumRates(Tail(rs))

RECURSIVE RangeFoldNoCarry(_, _, _)
\* a loop that forgets sum = hi: every range starts at the first sum
RangeFoldNoCarry(rs, sum, acc) ==
    IF rs = <<>> THEN acc
    ELSE LET lo == sum
             hi == lo + rs[1][2]
         IN RangeFoldNoCarry(Tail(rs), sum, Append(acc, <<rs[1][1], <<lo, hi>>>>))

RECURSIVE RangeFold(_, _, _)
\* the loop of rarity_range: (rarity, lo..hi) with a running sum
RangeFold(rs, sum, acc) ==
    IF rs = <<>> THEN acc
    ELSE LET lo == sum
             hi == lo + rs[1][2]
         IN RangeFold(Tail(rs), hi, Append(acc, <<rs[1][1], <<lo, hi>>>>))

rarity_range(rs) == RangeFold(rs, 0, <<>>)

\* a contains that takes the upper bound in: lo <= f <= hi
RangeContainsInclusive(range, f) == range[1] <= f /\ f <= range[2]

\* a contains with the bounds the other way round: lo < f <= hi
RangeContainsUpper(range, f) == range[1] < f /\ f <= range[2]

\* Range::contains: lo <= f < hi
RangeContains(range, f) == range[1] <= f /\ f < range[2]

\* a find that stops at the first entry of the rarity whose range holds f
FindRangeFirstOfTier(ranges, f) ==
    LET hits == { i \in 1..Len(ranges) : RangeContains(ranges[i][2], f) }
        same == { i \in 1..Len(ranges) : \E j \in hits : ranges[i][1] = ranges[j][1] }
    IN IF hits = {} THEN 0 ELSE CHOOSE i \in same : \A j \in same : i <= j

\* .iter().find(|(_, range)| range.contains(&f)): index of the first match, 0 if none
FindRange(ranges, f) ==
    LET hits == { i \in 1..Len(ranges) : RangeContains(ranges[i][2], f) }
    IN IF hits = {} THEN 0 ELSE CHOOSE i \in hits : \A j \in hits : i <= j

IsSSR(e) == e[1] = "SSR"
IsSSRorSR(e) == e[1] = "SSR" \/ e[1] = "SR"

\* a soft pity that filters nothing: the draw uses the whole table
pity_soft_unfiltered(soft, hard) ==
    IF hard + 1 = hard_pity
    THEN [some |-> TRUE, val |-> SelectSeq(rarities, IsSSR)]
    ELSE [some |-> FALSE, val |-> <<>>]

\* the soft pity tested first
pity_soft_first(soft, hard) ==
    IF soft + 1 = pity
    THEN [some |-> TRUE, val |-> SelectSeq(rarities, IsSSRorSR)]
    ELSE IF hard + 1 = hard_pity
    THEN [some |-> TRUE, val |-> SelectSeq(rarities, IsSSR)]
    ELSE [some |-> FALSE, val |-> <<>>]

\* the hard pity tested one draw late: hard = hard_pity
pity_hard_late(soft, hard) ==
    IF hard = hard_pity
    THEN [some |-> TRUE, val |-> SelectSeq(rarities, IsSSR)]
    ELSE IF soft + 1 = pity
    THEN [some |-> TRUE, val |-> SelectSeq(rarities, IsSSRorSR)]
    ELSE [some |-> FALSE, val |-> <<>>]

\* a pity that needs at least one accumulated miss
pity_needs_a_miss(soft, hard) ==
    IF hard > 0 /\ hard + 1 = hard_pity
    THEN [some |-> TRUE, val |-> SelectSeq(rarities, IsSSR)]
    ELSE IF soft > 0 /\ soft + 1 = pity
    THEN [some |-> TRUE, val |-> SelectSeq(rarities, IsSSRorSR)]
    ELSE [some |-> FALSE, val |-> <<>>]

\* a pity tested with >= : a threshold of 0 hits on every draw
pity_at_or_over(soft, hard) ==
    IF hard + 1 >= hard_pity
    THEN [some |-> TRUE, val |-> SelectSeq(rarities, IsSSR)]
    ELSE IF soft + 1 >= pity
    THEN [some |-> TRUE, val |-> SelectSeq(rarities, IsSSRorSR)]
    ELSE [some |-> FALSE, val |-> <<>>]

\* the soft pity tested one draw late: soft = pity
pity_soft_late(soft, hard) ==
    IF hard + 1 = hard_pity
    THEN [some |-> TRUE, val |-> SelectSeq(rarities, IsSSR)]
    ELSE IF soft = pity
    THEN [some |-> TRUE, val |-> SelectSeq(rarities, IsSSRorSR)]
    ELSE [some |-> FALSE, val |-> <<>>]

\* a pity decided once, from the accumulators at the entry of pull, for the whole batch
pity_at_entry(soft, hard) ==
    IF hard_pity_accu + 1 = hard_pity
    THEN [some |-> TRUE, val |-> SelectSeq(rarities, IsSSR)]
    ELSE IF pity_accu + 1 = pity
    THEN [some |-> TRUE, val |-> SelectSeq(rarities, IsSSRorSR)]
    ELSE [some |-> FALSE, val |-> <<>>]

\* pity_rarities_and_rate: Some(filtered table) when a pity is hit, else None
pity_rarities_and_rate(soft, hard) ==
    IF hard + 1 = hard_pity
    THEN [some |-> TRUE, val |-> SelectSeq(rarities, IsSSR)]
    ELSE IF soft + 1 = pity
    THEN [some |-> TRUE, val |-> SelectSeq(rarities, IsSSRorSR)]
    ELSE [some |-> FALSE, val |-> <<>>]

\* a match whose SR arm resets both accumulators
UpdateAccuSRResetsHard(rarity, soft, hard) ==
    IF rarity = "SSR" \/ rarity = "SR" THEN <<0, 0>>
    ELSE <<soft + 1, hard + 1>>

\* the match of gacha_by_rarity (lines 112-125): <<_pity_accu, _hard_pity_accu>> after a draw
UpdateAccu(rarity, soft, hard) ==
    IF rarity = "SSR" THEN <<0, 0>>
    ELSE IF rarity = "SR" THEN <<0, hard + 1>>
    ELSE <<soft + 1, hard + 1>>

\* a draw that costs nothing
SpendNothing(c) == c

\* self.chances -= 1
Spend(c) == c - 1

NoItem == [name |-> 0 - 1, rarity |-> "none"]

\* a gacha_by_rarity that updates the counters before it looks into the pool
gacha_by_rarity_counts_first(st, rarity) ==
    LET accu == UpdateAccu(rarity, st.pity_accu, st.hard_pity_accu)
    IN IF rarity \notin DOMAIN data
       THEN { [err |-> "InvalidRarity", item |-> NoItem, chances |-> Spend(st.chances),
               pity_accu |-> accu[1], hard_pity_accu |-> accu[2]] }
       ELSE IF data[rarity] = <<>>
       THEN { [err |-> "RarityWithNoData", item |-> NoItem, chances |-> Spend(st.chances),
               pity_accu |-> accu[1], hard_pity_accu |-> accu[2]] }
       ELSE { [err |-> "", item |-> data[rarity][k], chances |-> Spend(st.chances),
               pity_accu |-> accu[1], hard_pity_accu |-> accu[2]]
              : k \in 1..Len(data[rarity]) }

\* gacha_by_rarity: the possible results for one rarity, from the fields in st.
\* err is "" for Ok(item); the counters change only then.
gacha_by_rarity(st, rarity) ==
    IF rarity \notin DOMAIN data
    THEN { [err |-> "InvalidRarity", item |-> NoItem, chances |-> st.chances,
            pity_accu |-> st.pity_accu, hard_pity_accu |-> st.hard_pity_accu] }
    ELSE IF data[rarity] = <<>>
    THEN { [err |-> "RarityWithNoData", item |-> NoItem, chances |-> st.chances,
            pity_accu |-> st.pity_accu, hard_pity_accu |-> st.hard_pity_accu] }
    ELSE { LET accu == UpdateAccu(rarity, st.pity_accu, st.hard_pity_accu)
           IN [err |-> "", item |-> data[rarity][k], chances |-> Spend(st.chances),
               pity_accu |-> accu[1], hard_pity_accu |-> accu[2]]
           : k \in 1..Len(data[rarity]) }

\* a limit that ignores the budget
NumLimitUnsaturated(num) == num

\* a loop that runs at least once (a do-while)
NumLimitAtLeastOnce(num) == IF Min(num, chances) = 0 THEN 1 ELSE Min(num, chances)

\* let num_limit = num.min(self.chances)
NumLimit(num) == Min(num, chances)

\* the record trace keeps of one draw: the fields before it, the table it used,
\* the rarity found, the panic that ended it, the fields after it
DrawRecord(st, avail, rarity, g) ==
    [soft |-> st.pity_accu, hard |-> st.hard_pity_accu, budget |-> st.chances,
     available |-> avail, rarity |-> rarity, err |-> g.err, item |-> g.item,
     soft2 |-> g.pity_accu, hard2 |-> g.hard_pity_accu, budget2 |-> g.chances]

\* a draw that panics before gacha_by_rarity is called
Unchanged(st, err) ==
    [err |-> err, item |-> NoItem, chances |-> st.chances,
     pity_accu |-> st.pity_accu, hard_pity_accu |-> st.hard_pity_accu]

\* the loop state after a draw with record rec
AfterDraw(st, rec) ==
    [chances |-> rec.budget2, pity_accu |-> rec.soft2, hard_pity_accu |-> rec.hard2,
     result |-> IF rec.err = "" THEN Append(st.result, rec.item) ELSE st.result,
     trace |-> Append(st.trace, rec), panic |-> rec.err]

\* a loop body that falls back to N (the last rarity) when the table offers no
\* range for the value, instead of panicking
DrawOnceDefaulting(st) ==
    LET maybe_rarities == pity_rarities_and_rate(st.pity_accu, st.hard_pity_accu)
        available_rarities == IF maybe_rarities.some THEN maybe_rarities.val ELSE rarities
        gen_limit == SumRates(available_rarities)
        ranges == rarity_range(available_rarities)
    IN IF gen_limit <= 0
       THEN { AfterDraw(st, DrawRecord(st, available_rarities, "N", g))
              : g \in gacha_by_rarity(st, "N") }
       ELSE UNION {
              LET i == FindRange(ranges, f)
                  found == IF i = 0 THEN "N" ELSE ranges[i][1]
              IN { AfterDraw(st, DrawRecord(st, available_rarities, found, g))
                   : g \in gacha_by_rarity(st, found) }
              : f \in 0..(gen_limit - 1) }

\* one iteration of the loop of pull (lines 81-95): the loop states it can end in
DrawOnce(st) ==
    LET maybe_rarities == pity_rarities_and_rate(st.pity_accu, st.hard_pity_accu)
        available_rarities == IF maybe_rarities.some THEN maybe_rarities.val ELSE rarities
        gen_limit == SumRates(available_rarities)
        ranges == rarity_range(available_rarities)
    IN IF gen_limit <= 0
       THEN \* rng.gen_range(0.0..0.0) panics: the range is empty
            { AfterDraw(st, DrawRecord(st, available_rarities, "none",
                                       Unchanged(st, "EmptyRange"))) }
       ELSE UNION {
              LET i == FindRange(ranges, f)
              IN IF i = 0
                 THEN { AfterDraw(st, DrawRecord(st, available_rarities, "none",
                                                 Unchanged(st, "NoRange"))) }
                 ELSE { AfterDraw(st, DrawRecord(st, available_rarities, ranges[i][1], g))
                        : g \in gacha_by_rarity(st, ranges[i][1]) }
              : f \in 0..(gen_limit - 1) }

RECURSIVE PullLoop(_, _)
\* for _ in 0..num_limit: the loop states pull can leave the loop in; a panic ends it
PullLoop(st, n) ==
    IF n = 0 \/ st.panic # "" THEN {st}
    ELSE UNION { PullLoop(st2, n - 1) : st2 \in DrawOnce(st) }

\* a pull that swallows the error and returns what it has drawn so far
ReturnedPartial(st) == [kind |-> "Ok", items |-> st.result, err |-> ""]

\* what pull gives its caller: the Vec, or nothing when it panicked
Returned(st) ==
    IF st.panic = "" THEN [kind |-> "Ok", items |-> st.result, err |-> ""]
    ELSE [kind |-> "Panic", items |-> <<>>, err |-> st.panic]

\* fn pull(&mut self, num: u32) -> Vec<GachaItem>
pull(num) ==
    LET entry == [chances |-> chances, pity_accu |-> pity_accu,
                  hard_pity_accu |-> hard_pity_accu, result |-> <<>>, trace |-> <<>>,
                  panic |-> ""]
    IN \E st \in PullLoop(entry, NumLimit(num)) :
          /\ chances' = st.chances
          /\ pity_accu' = st.pity_accu
          /\ hard_pity_accu' = st.hard_pity_accu
          /\ ret' = Returned(st)
          /\ trace' = st.trace
          /\ call' = [num |-> num, chances |-> chances, pity_accu |-> pity_accu,
                      hard_pity_accu |-> hard_pity_accu]
          /\ UNCHANGED <<pity, hard_pity, data, rarities>>

\* no pull before the last one
NoPrev == [ret |-> [kind |-> "None", items |-> <<>>, err |-> ""], trace |-> <<>>,
           call |-> [num |-> 0, chances |-> 0, pity_accu |-> 0, hard_pity_accu |-> 0]]

\* nothing built or looked up yet
NoProbe == [op |-> "none", ranges |-> <<>>, f |-> 0 - 1, index |-> 0]

\* rarity_range(&self.rarities), on its own
BuildRanges ==
    /\ probe' = [op |-> "ranges", ranges |-> rarity_range(rarities), f |-> 0 - 1,
                 index |-> 0]
    /\ UNCHANGED <<chances, pity, hard_pity, pity_accu, hard_pity_accu, data, rarities,
                   ret, trace, call, prev>>

\* lines 83-92 on the whole table: a value f of [0, gen_limit) and the first range
\* of rarity_range that contains it
Lookup ==
    LET gen_limit == SumRates(rarities)
        ranges == rarity_range(rarities)
    IN /\ gen_limit > 0
       /\ \E f \in 0..(gen_limit - 1) :
             probe' = [op |-> "find", ranges |-> ranges, f |-> f,
                       index |-> FindRange(ranges, f)]
       /\ UNCHANGED <<chances, pity, hard_pity, pity_accu, hard_pity_accu, data,
                      rarities, ret, trace, call, prev>>

\* the state after construction: the host has set the properties, the accumulators
\* are Default::default(), nothing has been pulled
InitWith(budget, softs, hards, tables, pools) ==
    /\ chances = budget
    /\ pity \in softs
    /\ hard_pity \in hards
    /\ pity_accu = 0
    /\ hard_pity_accu = 0
    /\ data \in pools
    /\ rarities \in tables
    /\ ret = [kind |-> "None", items |-> <<>>, err |-> ""]
    /\ trace = <<>>
    /\ call = [num |-> 0, chances |-> budget, pity_accu |-> 0, hard_pity_accu |-> 0]
    /\ probe = NoProbe
    /\ prev = NoPrev

\* every pool filled
Init == InitWith(MaxChances, 0..MaxThreshold, 0..MaxThreshold, Tables, {FullData})

\* one pool missing or empty
InitPool == InitWith(MaxPoolChances, 0..MaxThreshold, 0..MaxThreshold, Tables, BadPools)

\* every pool filled, entries missing from the table
InitSparse ==
    InitWith(MaxPoolChances, 0..MaxThreshold, 0..MaxThreshold, SparseTables, {FullData})

\* every pool filled, two pulls in a row compared with one
InitBatch ==
    InitWith(MaxBatchChances, 0..MaxThreshold, 0..MaxThreshold, Tables, {FullData})

\* any table, for the range construction and the lookup alone
InitRange == InitWith(0, {0}, {0}, RangeTables, {FullData})

\* the combined pity scenario
InitScenario == InitWith(ScenChances, {ScenPity}, {ScenHardPity}, {ScenTable}, {FullData})

\* the host calls pull with any num; a num above chances saturates
Pull == \E num \in 0..(MaxChances + 1) : pull(num) /\ UNCHANGED <<probe, prev>>

\* the host calls pull again and again and keeps what the call before gave
PullBatch ==
    \E num \in 0..MaxBatchChances :
        /\ pull(num)
        /\ prev' = [ret |-> ret, trace |-> trace, call |-> call]
        /\ UNCHANGED probe

Next == Pull

Spec == Init /\ [][Next]_vars

SpecPool == InitPool /\ [][Next]_vars

SpecScenario == InitScenario /\ [][Next]_vars

SpecSparse == InitSparse /\ [][Next]_vars

NextBatch == PullBatch

SpecBatch == InitBatch /\ [][NextBatch]_vars

NextRange == BuildRanges \/ Lookup

SpecRange == InitRange /\ [][NextRange]_vars

\* ------------------------------------------------------------- properties
\* the draws the last pull started, in order
Draws == { trace[i] : i \in DOMAIN trace }

\* the draw starts with hard_streak + 1 = hard_threshold
HardHit(d) == d.hard + 1 = hard_pity

\* the draw starts with soft_streak + 1 = soft_threshold and no hard pity
SoftHit(d) == ~HardHit(d) /\ d.soft + 1 = pity

\* the weight the table gives a rarity (0 when it has no entry)
WeightOf(r) == SumRates(SelectSeq(rarities, LAMBDA e : e[1] = r))

\* C1: a pull(n) that returns, called with budget B, returns exactly min(n, B) items,
\* so never more than n and never more than B.
C1_CountBound ==
    ret.kind = "Ok" =>
        /\ Len(ret.items) = Min(call.num, call.chances)
        /\ Len(ret.items) <= call.num
        /\ Len(ret.items) <= call.chances

\* a pull asked for more than the budget (budget at least 2) returned the whole budget
C1_Witness ==
    /\ ret.kind = "Ok"
    /\ call.num > call.chances
    /\ call.chances >= 2
    /\ Len(ret.items) = call.chances

\* C2: the budget never increases and never goes below 0; a pull that returns k items
\* lowers it by exactly k; a returning pull asked for more than the budget leaves 0.
C2_BudgetMonotone ==
    /\ chances >= 0
    /\ chances <= call.chances
    /\ ret.kind = "Ok" => chances = call.chances - Len(ret.items)
    /\ (ret.kind = "Ok" /\ call.num > call.chances) => chances = 0
    /\ \A d \in Draws : d.budget2 <= d.budget /\ d.budget2 >= 0

\* a pull of fewer draws than the budget returned: part of the budget is left
C2_Witness ==
    /\ ret.kind = "Ok"
    /\ Len(ret.items) >= 1
    /\ call.num < call.chances
    /\ chances = call.chances - call.num
    /\ chances > 0

\* C3: every draw that starts with hard_streak + 1 = hard_threshold draws SSR,
\* whatever the weight table (an SSR weight of 0 included).
C3_HardPityDrawsSSR ==
    \A d \in Draws : HardHit(d) => d.rarity = "SSR"

\* C4, as claimed: a soft-pity draw that draws a tier draws SR, never SSR.
C4_SoftPityDrawsSR ==
    \A d \in Draws : (SoftHit(d) /\ d.rarity # "none") => d.rarity = "SR"

\* C4, amended: a soft-pity draw samples the table filtered to its SSR and SR
\* entries, so the tier it draws is SSR or SR (either one, by weight), never R or N.
C4_SoftPityDrawsSSRorSR ==
    \A d \in Draws :
        SoftHit(d) =>
            /\ d.available = SelectSeq(rarities, IsSSRorSR)
            /\ d.rarity \in {"SSR", "SR", "none"}
            /\ d.rarity = "none" <=> (WeightOf("SSR") + WeightOf("SR") = 0)

\* a soft-pity draw that drew SSR although SR has a positive weight
C4_Witness ==
    \E d \in Draws :
        SoftHit(d) /\ d.rarity = "SSR" /\ d.err = "" /\ WeightOf("SR") > 0

\* C5: the tier of a soft-pity draw is SSR or SR and has a positive weight: with SSR
\* weight 0 and SR weight > 0 it is SR, with SR weight 0 and SSR weight > 0 it is SSR.
C5_SoftPityPositiveWeight ==
    \A d \in Draws :
        (SoftHit(d) /\ d.rarity # "none") =>
            /\ d.rarity \notin {"R", "N"}
            /\ WeightOf(d.rarity) > 0
            /\ (WeightOf("SSR") = 0 /\ WeightOf("SR") > 0) => d.rarity = "SR"
            /\ (WeightOf("SR") = 0 /\ WeightOf("SSR") > 0) => d.rarity = "SSR"

\* a soft-pity draw with SSR disabled drew SR
C5_Witness ==
    \E d \in Draws :
        /\ SoftHit(d)
        /\ WeightOf("SSR") = 0
        /\ WeightOf("R") > 0
        /\ d.rarity = "SR"
        /\ d.err = ""

\* C6: a draw that starts with both hard_streak + 1 = hard_threshold and
\* soft_streak + 1 = soft_threshold uses the hard-pity table (SSR only); the tier it
\* draws is SSR and never SR, whatever the SR weight.
C6_HardPityFirst ==
    \A d \in Draws :
        (d.hard + 1 = hard_pity /\ d.soft + 1 = pity) =>
            /\ d.available = SelectSeq(rarities, IsSSR)
            /\ d.rarity # "SR"
            /\ d.rarity # "none" => d.rarity = "SSR"

\* both pities hit on one draw, SR has a positive weight, the draw gave SSR
C6_Witness ==
    \E d \in Draws :
        /\ d.hard + 1 = hard_pity
        /\ d.soft + 1 = pity
        /\ WeightOf("SR") > 0
        /\ d.rarity = "SSR"
        /\ d.err = ""

\* C7: a successful draw of SSR sets both streaks to 0; of SR sets soft_streak to 0
\* and adds 1 to hard_streak; of R or N adds 1 to both; forced by pity or not.
C7_ResetLaw ==
    /\ \A d \in Draws :
          d.err = "" =>
            /\ d.rarity = "SSR" => (d.soft2 = 0 /\ d.hard2 = 0)
            /\ d.rarity = "SR" => (d.soft2 = 0 /\ d.hard2 = d.hard + 1)
            /\ d.rarity \in {"R", "N"} => (d.soft2 = d.soft + 1 /\ d.hard2 = d.hard + 1)
    /\ trace # <<>> =>
          /\ pity_accu = trace[Len(trace)].soft2
          /\ hard_pity_accu = trace[Len(trace)].hard2

\* an SR forced by soft pity after a miss: soft_streak back to 0, hard_streak up by 1
C7_Witness ==
    \E d \in Draws :
        /\ d.err = ""
        /\ d.rarity = "SR"
        /\ SoftHit(d)
        /\ d.soft >= 1
        /\ d.soft2 = 0
        /\ d.hard2 = d.hard + 1

\* C8: in the combined scenario the 10th draw gives SR, the 80th gives SSR and leaves
\* a budget of 20.
C8_CombinedScenario ==
    \A d \in Draws :
        /\ d.budget = ScenChances - 9 => d.rarity = "SR"
        /\ d.budget = ScenChances - 79 => (d.rarity = "SSR" /\ d.budget2 = 20)

\* C9: with hard_pity = H >= 1, hard_streak stays strictly below H, before and after
\* every draw and between the pulls.
C9_HardStreakBelowThreshold ==
    hard_pity >= 1 =>
        /\ hard_pity_accu < hard_pity
        /\ \A d \in Draws : d.hard < hard_pity /\ d.hard2 < hard_pity

\* a hard_streak of H - 1 >= 1 was reset by a forced SSR
C9_Witness ==
    \E d \in Draws :
        /\ hard_pity >= 2
        /\ d.hard = hard_pity - 1
        /\ d.rarity = "SSR"
        /\ d.err = ""
        /\ d.hard2 = 0

\* C10: a draw whose tier has no entry in the pool fails with InvalidRarity, one
\* whose entry is empty fails with RarityWithNoData; the failing draw is the last of
\* the batch and pull returns no sequence, only the error.
C10_FailurePropagation ==
    /\ \A d \in Draws :
          d.rarity # "none" =>
            /\ d.rarity \notin DOMAIN data => d.err = "InvalidRarity"
            /\ (d.rarity \in DOMAIN data /\ data[d.rarity] = <<>>)
                  => d.err = "RarityWithNoData"
            /\ (d.rarity \in DOMAIN data /\ data[d.rarity] # <<>>) => d.err = ""
    /\ \A i \in DOMAIN trace :
          trace[i].err # "" =>
            /\ i = Len(trace)
            /\ ret.kind = "Panic"
            /\ ret.err = trace[i].err
            /\ ret.items = <<>>

\* the second draw of a batch, forced to SSR by hard pity, found the SSR pool empty
C10_Witness ==
    /\ Len(trace) = 2
    /\ trace[1].err = ""
    /\ HardHit(trace[2])
    /\ trace[2].rarity = "SSR"
    /\ ret.err = "RarityWithNoData"

\* C11: a failing draw changes nothing and rolls nothing back: when the j-th draw of
\* a batch fails, budget and streaks are what the j-1 successful draws before it
\* left (budget lowered by j-1), and the failing draw leaves them as it found them.
C11_FailedDrawFrame ==
    \A j \in DOMAIN trace :
        /\ trace[j].budget = call.chances - (j - 1)
        /\ j = 1 => (trace[j].soft = call.pity_accu /\ trace[j].hard = call.hard_pity_accu)
        /\ j > 1 => /\ trace[j - 1].err = ""
                    /\ trace[j].soft = trace[j - 1].soft2
                    /\ trace[j].hard = trace[j - 1].hard2
                    /\ trace[j].budget = trace[j - 1].budget2
        /\ trace[j].err # "" =>
              /\ trace[j].budget2 = trace[j].budget
              /\ trace[j].soft2 = trace[j].soft
              /\ trace[j].hard2 = trace[j].hard
              /\ chances = call.chances - (j - 1)
              /\ pity_accu = trace[j].soft
              /\ hard_pity_accu = trace[j].hard

\* the second draw of a batch found no pool for its tier, after a first draw of R or N:
\* one chance spent, both streaks at 1
C11_Witness ==
    /\ Len(trace) = 2
    /\ trace[1].rarity \in {"R", "N"}
    /\ trace[2].err = "InvalidRarity"
    /\ chances = call.chances - 1
    /\ pity_accu = call.pity_accu + 1
    /\ hard_pity_accu = call.hard_pity_accu + 1

\* C12: a pull with budget 0, or with num 0, returns an empty sequence without
\* failing and without starting a draw, whatever the pools, the table and the
\* thresholds, and leaves budget and streaks unchanged.
C12_ZeroBudgetTerminal ==
    (ret.kind # "None" /\ (call.chances = 0 \/ call.num = 0)) =>
        /\ ret = [kind |-> "Ok", items |-> <<>>, err |-> ""]
        /\ trace = <<>>
        /\ chances = call.chances
        /\ pity_accu = call.pity_accu
        /\ hard_pity_accu = call.hard_pity_accu

\* a pull of at least one draw on an exhausted budget, with a defective pool and a
\* running streak, returned the empty sequence
C12_Witness ==
    /\ ret.kind = "Ok"
    /\ call.chances = 0
    /\ call.num >= 1
    /\ ret.items = <<>>
    /\ hard_pity_accu >= 1
    /\ data \in BadPools

\* C13: with hard_pity = 1 every draw is a hard-pity draw, every successful draw is
\* SSR and both streaks stay 0; with pity = 1 soft_streak stays 0 and every draw on
\* which hard pity does not trigger is a soft-pity draw.
C13_ThresholdOne ==
    /\ hard_pity = 1 =>
          /\ pity_accu = 0
          /\ hard_pity_accu = 0
          /\ \A d \in Draws :
                /\ d.available = SelectSeq(rarities, IsSSR)
                /\ d.err = "" => d.rarity = "SSR"
                /\ d.soft2 = 0 /\ d.hard2 = 0
    /\ pity = 1 =>
          /\ pity_accu = 0
          /\ \A d \in Draws :
                /\ d.soft = 0 /\ d.soft2 = 0
                /\ d.hard + 1 # hard_pity =>
                      /\ d.available = SelectSeq(rarities, IsSSRorSR)
                      /\ d.err = "" => d.rarity \in {"SSR", "SR"}

\* pity = 1 and no hard pity: three draws of one batch, each a soft-pity draw giving
\* SR although R and N have a positive weight
C13_Witness ==
    /\ pity = 1
    /\ hard_pity = 0
    /\ WeightOf("R") > 0
    /\ WeightOf("N") > 0
    /\ Len(trace) = 3
    /\ \A d \in Draws : d.rarity = "SR" /\ d.err = ""

\* C14, as claimed: with hard_pity = 0 every successful draw is SSR, and with
\* pity = 0 every successful draw without hard pity is SSR or SR.
C14_ThresholdZeroIsPity ==
    \A d \in Draws :
        d.err = "" =>
            /\ hard_pity = 0 => d.rarity = "SSR"
            /\ (pity = 0 /\ d.hard + 1 # hard_pity) => d.rarity \in {"SSR", "SR"}

\* C14, amended: a threshold of 0 never triggers: with hard_pity = 0 no draw uses the
\* SSR-only table, with pity = 0 no draw uses the SSR/SR table; such a draw uses the
\* table the other threshold gives it, the whole table if that one does not hit.
C14_ThresholdZeroNeverHits ==
    \A d \in Draws :
        /\ hard_pity = 0 =>
              d.available = IF d.soft + 1 = pity
                            THEN SelectSeq(rarities, IsSSRorSR)
                            ELSE rarities
        /\ pity = 0 =>
              d.available = IF d.hard + 1 = hard_pity
                            THEN SelectSeq(rarities, IsSSR)
                            ELSE rarities

\* both thresholds 0, SSR and SR enabled: three draws in a row gave R or N and both
\* streaks grew to 3
C14_Witness ==
    /\ hard_pity = 0
    /\ pity = 0
    /\ WeightOf("SSR") > 0
    /\ WeightOf("SR") > 0
    /\ Len(trace) = 3
    /\ \A d \in Draws : d.rarity \in {"R", "N"} /\ d.err = ""
    /\ pity_accu = 3
    /\ hard_pity_accu = 3

\* the sum of the weights of the first n entries of the table
WeightBefore(n) == SumRates(SubSeq(rarities, 1, n))

\* C15: rarity_range returns one half-open range per entry, in the order of the
\* table, the first starting at 0, each starting where the one before ends, each as
\* long as its entry's weight (empty for a weight of 0), no two overlapping; for
\* tests::RARITIES the bounds are 0, 0.05, 0.40, 0.80, 1.00 (0, 1, 8, 16, 20 units).
C15_RangeConstruction ==
    probe.op # "none" =>
        LET rg == probe.ranges
        IN /\ Len(rg) = Len(rarities)
           /\ \A i \in DOMAIN rg :
                 /\ rg[i][1] = rarities[i][1]
                 /\ rg[i][2][2] - rg[i][2][1] = rarities[i][2]
                 /\ i = 1 => rg[i][2][1] = 0
                 /\ i > 1 => rg[i][2][1] = rg[i - 1][2][2]
           /\ \A i, j \in DOMAIN rg : i < j => rg[i][2][2] <= rg[j][2][1]
           /\ rarities = TestTable =>
                 rg = <<<<"SSR", <<0, 1>>>>, <<"N", <<1, 8>>>>,
                        <<"R", <<8, 16>>>>, <<"SR", <<16, 20>>>>>>

\* the ranges of tests::RARITIES were built
C15_Witness ==
    /\ probe.op = "ranges"
    /\ rarities = TestTable
    /\ Len(probe.ranges) = 4
    /\ probe.ranges[4] = <<"SR", <<16, 20>>>>

\* C16: for a table of positive total weight and a value f of [0, total), a range
\* containing f exists, is the only one, and is the one found; its entry has a
\* positive weight; an f on a boundary finds the range that starts there.
C16_TierLookup ==
    probe.op = "find" =>
        LET rg == probe.ranges
            holds == { i \in DOMAIN rg : rg[i][2][1] <= probe.f /\ probe.f < rg[i][2][2] }
        IN /\ holds = {probe.index}
           /\ probe.index \in DOMAIN rarities
           /\ rarities[probe.index][2] > 0
           /\ \A j \in DOMAIN rg :
                 (rg[j][2][1] = probe.f /\ rarities[j][2] > 0) => probe.index = j
           /\ \A j \in DOMAIN rg : rg[j][2][2] = probe.f => probe.index # j

\* f on the boundary shared by the first range, an empty second one and the third:
\* the third entry is found
C16_Witness ==
    /\ probe.op = "find"
    /\ Len(rarities) = 3
    /\ rarities[1][2] > 0
    /\ rarities[2][2] = 0
    /\ probe.f = probe.ranges[1][2][2]
    /\ probe.index = 3

\* C17: no draw defaults to a tier: a draw whose table (the whole one or the
\* pity-filtered one) is empty or sums to 0 finds no tier; a draw that finds no tier
\* panics, is the last of its batch, returns no item, and leaves budget and streaks
\* as it found them; a tier that is found has an entry of positive weight in the
\* table of that draw.
C17_NoDefaultTier ==
    \A j \in DOMAIN trace :
        LET d == trace[j]
        IN /\ SumRates(d.available) = 0 => d.rarity = "none"
           /\ d.rarity = "none" =>
                 /\ d.err \in {"EmptyRange", "NoRange"}
                 /\ d.item = NoItem
                 /\ j = Len(trace)
                 /\ ret = [kind |-> "Panic", items |-> <<>>, err |-> d.err]
                 /\ d.budget2 = d.budget /\ chances = d.budget
                 /\ d.soft2 = d.soft /\ pity_accu = d.soft
                 /\ d.hard2 = d.hard /\ hard_pity_accu = d.hard
           /\ d.rarity # "none" =>
                 \E k \in DOMAIN d.available :
                     d.available[k][1] = d.rarity /\ d.available[k][2] > 0

\* the second draw of a batch hit hard pity on a table without an SSR entry: the
\* filtered table is empty and the pull panicked, one chance spent by the first draw
C17_Witness ==
    /\ Len(trace) = 2
    /\ trace[1].err = ""
    /\ trace[2].hard + 1 = hard_pity
    /\ trace[2].available = <<>>
    /\ ret.kind = "Panic"
    /\ chances = call.chances - 1

\* the values of [0, total) for which the lookup finds an entry of rarity r
TierHits(r) ==
    LET ranges == rarity_range(rarities)
    IN { f \in 0..(SumRates(rarities) - 1) : ranges[FindRange(ranges, f)][1] = r }

\* C18, as claimed: the entry the lookup finds is never a later duplicate of an
\* entry that has a range of its own (a positive weight) earlier in the table.
C18_OnlyFirstOccurrence ==
    probe.op = "find" =>
        \A j \in 1..(probe.index - 1) :
            ~(rarities[j][1] = rarities[probe.index][1] /\ rarities[j][2] > 0)

\* C18, amended: a repeated rarity has one range per entry and the lookup finds the
\* entry whose own range holds the value, a later duplicate included; the values
\* that give a rarity are as many as the sum of the weights of all its entries.
C18_DuplicatesAddWeight ==
    probe.op = "find" =>
        /\ probe.index \in DOMAIN rarities
        /\ WeightBefore(probe.index - 1) <= probe.f
        /\ probe.f < WeightBefore(probe.index)
        /\ \A r \in Rarity : Cardinality(TierHits(r)) = WeightOf(r)

\* the lookup found a later duplicate of a rarity whose first entry has a positive
\* weight
C18_Witness ==
    /\ probe.op = "find"
    /\ probe.index > 1
    /\ \E j \in 1..(probe.index - 1) :
          rarities[j][1] = rarities[probe.index][1] /\ rarities[j][2] > 0

\* C19: with pity = S >= 1, soft_streak stays strictly below S, before and after
\* every draw and between the pulls: a draw that starts at S - 1 is a pity draw, and
\* gives SSR or SR or nothing.
C19_SoftStreakBelowThreshold ==
    pity >= 1 =>
        /\ pity_accu < pity
        /\ \A d \in Draws :
              /\ d.soft < pity /\ d.soft2 < pity
              /\ (d.soft = pity - 1 /\ d.err = "") => d.rarity \in {"SSR", "SR"}

\* a soft_streak of S - 1 >= 1 was reset by a soft-pity draw of SR, R and N enabled
C19_Witness ==
    \E d \in Draws :
        /\ pity >= 2
        /\ d.soft = pity - 1
        /\ d.hard + 1 # hard_pity
        /\ WeightOf("R") > 0
        /\ d.rarity = "SR"
        /\ d.err = ""
        /\ d.soft2 = 0

RECURSIVE PullLoopAlong(_, _, _)
\* the loop states the loop of pull ends in when it runs n times from st and its
\* draws make the same choices as the draws recorded in recs, one after the other
PullLoopAlong(st, n, recs) ==
    IF n = 0 \/ st.panic # ""
    THEN IF recs = <<>> THEN {st} ELSE {}
    ELSE IF recs = <<>> THEN {}
    ELSE UNION { PullLoopAlong(st2, n - 1, Tail(recs))
                 : st2 \in { x \in DrawOnce(st) : x.trace[Len(x.trace)] = recs[1] } }

\* the loop states a single pull(n) ends in, started from the fields at the entry
\* of the pull before the last one and making the choices recorded in recs
SingleBatch(n, recs) ==
    PullLoopAlong([chances |-> prev.call.chances, pity_accu |-> prev.call.pity_accu,
                   hard_pity_accu |-> prev.call.hard_pity_accu, result |-> <<>>,
                   trace |-> <<>>, panic |-> ""],
                  Min(n, prev.call.chances), recs)

\* C20: pull(a) followed by pull(b) makes the draws one pull(a + b) can make from
\* the same fields, pity decided draw by draw: the same draw records in the same
\* order, the same final budget and streaks, and, when the pulls return, the same
\* items, the two results concatenated.
C20_BatchingInvariant ==
    prev.ret.kind # "None" =>
        \E o \in SingleBatch(prev.call.num + call.num,
                             IF prev.ret.kind = "Panic" THEN prev.trace
                             ELSE prev.trace \o trace) :
            /\ o.chances = chances
            /\ o.pity_accu = pity_accu
            /\ o.hard_pity_accu = hard_pity_accu
            /\ (o.panic = "") <=> (prev.ret.kind = "Ok" /\ ret.kind = "Ok")
            /\ o.panic = "" => o.result = prev.ret.items \o ret.items

\* pull(1) gave R or N, then pull(1) hit the hard pity the first draw had set up and
\* gave SSR: the second draw of pull(2)
C20_Witness ==
    /\ prev.ret.kind = "Ok"
    /\ ret.kind = "Ok"
    /\ prev.call.num = 1
    /\ call.num = 1
    /\ Len(prev.trace) = 1
    /\ prev.trace[1].rarity \in {"R", "N"}
    /\ Len(trace) = 1
    /\ trace[1].hard = 1
    /\ trace[1].hard + 1 = hard_pity
    /\ trace[1].rarity = "SSR"
    /\ WeightOf("R") > 0

====
